---- MODULE Spec2Model ----
(***************************************************************************)
(* A model of pptgenerator.py: the PDF text extractor with its fallback    *)
(* provider, the slide-content generator with its two fallbacks, the       *)
(* outline parser and the presentation assembler, and the start of main(). *)
(*                                                                         *)
(* Strings are sequences of one-character strings.  Extracted page text is *)
(* represented by its length only; the accumulated text is the sequence of *)
(* the segments appended to it, so that appending and replacing differ.    *)
(***************************************************************************)
EXTENDS Integers, Sequences, FiniteSets, TLC

VARIABLES
    pc,               \* control position of the function being executed
    pdf,              \* the uploaded file: what each provider yields per page
    text,             \* extract_text_from_pdf: local `text`, a sequence of segments
    page,             \* extract_text_from_pdf: 1-based index of the page being read
    seeks,            \* number of pdf_file.seek(0) calls made so far
    calledB,          \* PdfReader (PyPDF2) has been invoked
    lenA,             \* len(text) when the pdfplumber pass ended, -1 before that
    ret_text,         \* first component returned by extract_text_from_pdf (<<>> is None)
    ret_error,        \* second component returned by extract_text_from_pdf
    response,         \* generate_slide_content: what model.generate_content did
    content,          \* generate_slide_content: its outcome
    slide_structure,  \* create_presentation: the outline text argument
    slides_to_create, \* create_presentation: parsed slide titles
    idx,              \* create_presentation: position in slides_to_create[:MAX_SLIDES]
    prs,              \* create_presentation: slides added to the Presentation so far
    ppt_path,         \* create_presentation: returned value
    genCalls,         \* calls made to model.generate_content so far
    allRaised,        \* every call to model.generate_content so far has raised
    model             \* main: the value bound to `model`

vars == <<pc, pdf, text, page, seeks, calledB, lenA, ret_text, ret_error,
          response, content, slide_structure, slides_to_create, idx, prs,
          ppt_path, genCalls, allRaised, model>>

extractVars == <<pdf, text, page, seeks, calledB, lenA, ret_text, ret_error>>
contentVars == <<response, content>>
presentVars == <<slide_structure, slides_to_create, idx, prs, ppt_path,
                 genCalls, allRaised>>

None == "None"

----------------------------------------------------------------------------
(* Program constants *)

MAX_SLIDES ==
    10
PROCESSING_CHUNK_SIZE ==
    15000
MIN_CONTENT_LENGTH ==
    100

(* Bounds of the model *)

MaxPages ==
    2
MaxRespLen ==
    3
MaxLines ==
    12

----------------------------------------------------------------------------
(* Python string primitives on sequences of characters *)

Whitespace == {" ", "\n"}

\* s.startswith(p)
StartsWith(s, p) ==
    Len(p) <= Len(s) /\ SubSeq(s, 1, Len(p)) = p

\* s.find(sub) from position `from`, 1-based; 0 when absent
RECURSIVE Find(_, _, _)
Find(s, sub, from) ==
    IF from + Len(sub) - 1 > Len(s) THEN 0
    ELSE IF SubSeq(s, from, from + Len(sub) - 1) = sub THEN from
    ELSE Find(s, sub, from + 1)

\* sub in s
Contains(s, sub) ==
    Find(s, sub, 1) # 0

\* s.split(sep), sep non-empty
RECURSIVE Split(_, _)
Split(s, sep) ==
    LET j == Find(s, sep, 1)
    IN  IF j = 0 THEN <<s>>
        ELSE <<SubSeq(s, 1, j - 1)>> \o Split(SubSeq(s, j + Len(sep), Len(s)), sep)

RECURSIVE LStrip(_, _)
LStrip(s, chars) ==
    IF s # <<>> /\ Head(s) \in chars THEN LStrip(Tail(s), chars) ELSE s

RECURSIVE RStrip(_, _)
RStrip(s, chars) ==
    IF s # <<>> /\ s[Len(s)] \in chars THEN RStrip(SubSeq(s, 1, Len(s) - 1), chars) ELSE s

\* s.strip(chars)
Strip(s, chars) ==
    RStrip(LStrip(s, chars), chars)

\* s.replace(old, new), old non-empty
RECURSIVE Replace(_, _, _)
Replace(s, old, new) ==
    LET j == Find(s, old, 1)
    IN  IF j = 0 THEN s
        ELSE SubSeq(s, 1, j - 1) \o new \o Replace(SubSeq(s, j + Len(old), Len(s)), old, new)

\* str(n) for n >= 0
RECURSIVE Digits(_)
Digits(n) ==
    LET d == <<"0", "1", "2", "3", "4", "5", "6", "7", "8", "9">>
    IN  IF n < 10 THEN <<d[n + 1]>> ELSE Digits(n \div 10) \o <<d[(n % 10) + 1]>>

\* All sequences over S of length at most n
RECURSIVE SeqsUpTo(_, _)
SeqsUpTo(S, n) ==
    IF n = 0 THEN {<<>>}
    ELSE LET shorter == SeqsUpTo(S, n - 1)
         IN  shorter \cup {Append(s, x) : s \in {t \in shorter : Len(t) = n - 1}, x \in S}

----------------------------------------------------------------------------
(* extract_text_from_pdf *)

\* the outcome of a page whose extraction raises
RAISE ==
    -1

\* What page.extract_text() does for one page: raises, or returns a text of
\* the given length (0 stands for None or the empty string).
PageLens == {0, 45, 89, 15000}
PageOutcomes == PageLens \cup {RAISE}

\* A provider's behaviour over the pages of a file; nothing is read after a raise.
ProviderRuns ==
    {r \in SeqsUpTo(PageOutcomes, MaxPages) :
        \A k \in 1..Len(r) : r[k] = RAISE => k = Len(r)}

PDFs == [A : ProviderRuns, B : ProviderRuns]

\* len(f"\n\n[Page {i+1}]\n"), p = i + 1
PageMarkerLen(p) ==
    10 + Len(Digits(p))

RECURSIVE TextLen(_)
TextLen(t) ==
    IF t = <<>> THEN 0
    ELSE PageMarkerLen(Head(t).page) + Head(t).len + TextLen(Tail(t))

\* text += f"\n\n[Page {i+1}]\n{page_text}" when page_text is truthy
AppendPage(t, prov, p, n) ==
    IF n > 0 THEN Append(t, [prov |-> prov, page |-> p, len |-> n]) ELSE t

\* a text of exactly MIN_CONTENT_LENGTH characters also falls back
NeedsFallbackAtMost(n) ==
    n <= MIN_CONTENT_LENGTH

\* if len(text) < MIN_CONTENT_LENGTH
NeedsFallback(n) ==
    n < MIN_CONTENT_LENGTH

\* if len(text) > MIN_CONTENT_LENGTH
Sufficient(n) ==
    n > MIN_CONTENT_LENGTH

ErrScanned == "Failed to extract sufficient text (document may be scanned)"

ExtractInitVars ==
    /\ text = <<>>
    /\ page = 0
    /\ seeks = 0
    /\ calledB = FALSE
    /\ lenA = -1
    /\ ret_text = <<>>
    /\ ret_error = None

\* pdf_file.seek(0); text = ""
Seek ==
    /\ pc = "seek"
    /\ seeks' = seeks + 1
    /\ text' = <<>>
    /\ page' = 1
    /\ pc' = "plumber"
    /\ UNCHANGED <<pdf, calledB, lenA, ret_text, ret_error>>
    /\ UNCHANGED <<contentVars, presentVars, model>>

\* one iteration of the pdfplumber loop
PlumberPage ==
    /\ pc = "plumber"
    /\ page <= Len(pdf.A)
    /\ pdf.A[page] # RAISE
    /\ LET t == AppendPage(text, "A", page, pdf.A[page])
       IN  /\ text' = t
           /\ IF TextLen(t) > PROCESSING_CHUNK_SIZE \/ page = Len(pdf.A)
              THEN pc' = "fallback" /\ lenA' = TextLen(t) /\ page' = page
              ELSE pc' = "plumber" /\ lenA' = lenA /\ page' = page + 1
    /\ UNCHANGED <<pdf, seeks, calledB, ret_text, ret_error>>
    /\ UNCHANGED <<contentVars, presentVars, model>>

\* pdfplumber raised: st.warning, keep what was accumulated
PlumberRaise ==
    /\ pc = "plumber"
    /\ page <= Len(pdf.A)
    /\ pdf.A[page] = RAISE
    /\ lenA' = TextLen(text)
    /\ pc' = "fallback"
    /\ UNCHANGED <<pdf, text, page, seeks, calledB, ret_text, ret_error>>
    /\ UNCHANGED <<contentVars, presentVars, model>>

\* pdfplumber found no pages
PlumberEmpty ==
    /\ pc = "plumber"
    /\ Len(pdf.A) = 0
    /\ lenA' = TextLen(text)
    /\ pc' = "fallback"
    /\ UNCHANGED <<pdf, text, page, seeks, calledB, ret_text, ret_error>>
    /\ UNCHANGED <<contentVars, presentVars, model>>

\* if len(text) < MIN_CONTENT_LENGTH: pdf_file.seek(0); reader = PdfReader(pdf_file)
FallbackCheck ==
    /\ pc = "fallback"
    /\ IF NeedsFallback(TextLen(text))
       THEN /\ seeks' = seeks + 1
            /\ calledB' = TRUE
            /\ page' = 1
            /\ pc' = "pypdf"
       ELSE /\ pc' = "final"
            /\ UNCHANGED <<seeks, calledB, page>>
    /\ UNCHANGED <<pdf, text, lenA, ret_text, ret_error>>
    /\ UNCHANGED <<contentVars, presentVars, model>>

\* one iteration of the PyPDF2 loop
PyPDFPage ==
    /\ pc = "pypdf"
    /\ page <= Len(pdf.B)
    /\ pdf.B[page] # RAISE
    /\ LET t == AppendPage(text, "B", page, pdf.B[page])
       IN  /\ text' = t
           /\ IF TextLen(t) > PROCESSING_CHUNK_SIZE \/ page = Len(pdf.B)
              THEN pc' = "final" /\ page' = page
              ELSE pc' = "pypdf" /\ page' = page + 1
    /\ UNCHANGED <<pdf, seeks, calledB, lenA, ret_text, ret_error>>
    /\ UNCHANGED <<contentVars, presentVars, model>>

\* PyPDF2 raised: st.warning, keep what was accumulated
PyPDFRaise ==
    /\ pc = "pypdf"
    /\ page <= Len(pdf.B)
    /\ pdf.B[page] = RAISE
    /\ pc' = "final"
    /\ UNCHANGED <<pdf, text, page, seeks, calledB, lenA, ret_text, ret_error>>
    /\ UNCHANGED <<contentVars, presentVars, model>>

\* PyPDF2 found no pages
PyPDFEmpty ==
    /\ pc = "pypdf"
    /\ Len(pdf.B) = 0
    /\ pc' = "final"
    /\ UNCHANGED <<pdf, text, page, seeks, calledB, lenA, ret_text, ret_error>>
    /\ UNCHANGED <<contentVars, presentVars, model>>

\* return text, None  or  return None, "Failed to extract ..."
ExtractReturn ==
    /\ pc = "final"
    /\ IF Sufficient(TextLen(text))
       THEN ret_text' = <<text>> /\ ret_error' = None
       ELSE ret_text' = <<>> /\ ret_error' = ErrScanned
    /\ pc' = "extracted"
    /\ UNCHANGED <<pdf, text, page, seeks, calledB, lenA>>
    /\ UNCHANGED <<contentVars, presentVars, model>>

----------------------------------------------------------------------------
(* generate_slide_content *)

BulletDot == "U+2022"   \* the character U+2022

BulletMarkers == {"-", BulletDot, "*"}

BlankPlaceholder ==
    <<"-", " ", "K", "e", "y", " ", "p", "o", "i", "n", "t", " ", "f", "r", "o", "m",
      " ", "d", "o", "c", "u", "m", "e", "n", "t", " ", "(", "P", "a", "g", "e", " ",
      "X", ")", "\n", "-", " ", "I", "m", "p", "o", "r", "t", "a", "n", "t", " ", "f",
      "i", "n", "d", "i", "n", "g", " ", "(", "P", "a", "g", "e", " ", "Y", ")", "\n",
      "-", " ", "R", "e", "l", "e", "v", "a", "n", "t", " ", "d", "e", "t", "a", "i",
      "l", " ", "(", "P", "a", "g", "e", " ", "Z", ")">>

ExceptionPlaceholder ==
    <<"-", " ", "D", "o", "c", "u", "m", "e", "n", "t", " ", "p", "o", "i", "n", "t",
      " ", "1", " ", "(", "P", "a", "g", "e", " ", "X", ")", "\n", "-", " ", "D", "o",
      "c", "u", "m", "e", "n", "t", " ", "p", "o", "i", "n", "t", " ", "2", " ", "(",
      "P", "a", "g", "e", " ", "Y", ")", "\n", "-", " ", "D", "o", "c", "u", "m", "e",
      "n", "t", " ", "p", "o", "i", "n", "t", " ", "3", " ", "(", "P", "a", "g", "e",
      " ", "Z", ")">>

\* What model.generate_content(prompt) followed by response.text does:
\* raises, or yields a text.
RaiseResp == [raised |-> TRUE, value |-> <<>>]
TextResp(s) == [raised |-> FALSE, value |-> s]

\* any(marker in content for marker in ['-', '•', '*'])
HasMarker(s) ==
    \E k \in 1..Len(s) : s[k] \in BulletMarkers

\* the post-processing without the re-wrapping branch
EnsureBulletsNoRewrap(s) ==
    IF Strip(s, Whitespace) = <<>> THEN BlankPlaceholder ELSE s

\* if not content.strip(): ... elif not any(marker in content ...): ...
EnsureBullets(s) ==
    IF Strip(s, Whitespace) = <<>> THEN BlankPlaceholder
    ELSE IF ~HasMarker(s) THEN <<"-", " ">> \o Replace(s, <<"\n">>, <<"\n", "-", " ">>)
    ELSE s

\* the body of the try block: an outcome that either raised or carries a value
TryGenerate(resp) ==
    IF resp.raised THEN RaiseResp ELSE TextResp(EnsureBullets(resp.value))

\* the handler substituting the placeholder of the empty-result branch
GenerateSlideContentBlankFallback(resp) ==
    LET r == TryGenerate(resp)
    IN  IF r.raised THEN TextResp(BlankPlaceholder) ELSE r

\* try: ... return content / except Exception: return "- Document point 1 ..."
GenerateSlideContent(resp) ==
    LET r == TryGenerate(resp)
    IN  IF r.raised THEN TextResp(ExceptionPlaceholder) ELSE r

ContentAlphabet == {"-", BulletDot, "*", "a", " ", "\n"}

ContentResponses ==
    {RaiseResp} \cup {TextResp(s) : s \in SeqsUpTo(ContentAlphabet, MaxRespLen)}

NoContent == [raised |-> FALSE, value |-> <<>>]

ContentInitVars ==
    /\ response = None
    /\ content = NoContent

\* one call of generate_slide_content, the service behaving as `resp`
GenerateContentCall ==
    /\ pc = "gen_call"
    /\ \E resp \in ContentResponses :
          /\ response' = resp
          /\ content' = GenerateSlideContent(resp)
    /\ pc' = "gen_done"
    /\ UNCHANGED <<extractVars, presentVars, model>>

----------------------------------------------------------------------------
(* create_presentation *)

sSlide == <<"S", "l", "i", "d", "e">>
sDash == <<" ", "-", " ">>
sColon == <<":", " ">>
sNewline == <<"\n">>
Brackets == {"[", "]"}

TitleSlideMarker ==
    <<"[", "T", "i", "t", "l", "e", " ", "S", "l", "i", "d", "e", "]">>

\* the ppt_title argument and the subtitle written on the title slide
PptTitle == <<"Q", "3">>
Subtitle == <<"G", "e", "n", "e", "r", "a", "t", "e", "d">>

TmpFile == "tmp.pptx"

\* the title kept with its brackets
TitleOfUnstripped(seg) ==
    seg

\* .strip('[]')
TitleOf(seg) ==
    Strip(seg, Brackets)

\* One line of the outline: skipped, a title appended, or IndexError raised
\* by parts[0].split(': ')[1].
ParseLine(line) ==
    IF ~StartsWith(line, sSlide) THEN [kind |-> "skip", title |-> <<>>]
    ELSE LET parts == Split(line, sDash)
         IN  IF Len(parts) < 2 THEN [kind |-> "skip", title |-> <<>>]
             ELSE LET segs == Split(parts[1], sColon)
                  IN  IF Len(segs) < 2 THEN [kind |-> "raise", title |-> <<>>]
                      ELSE [kind |-> "title", title |-> TitleOf(segs[2])]

RECURSIVE ParseLines(_, _)
ParseLines(lines, acc) ==
    IF lines = <<>> THEN [raised |-> FALSE, titles |-> acc]
    ELSE LET r == ParseLine(Head(lines))
         IN  IF r.kind = "raise" THEN [raised |-> TRUE, titles |-> acc]
             ELSE IF r.kind = "title" THEN ParseLines(Tail(lines), Append(acc, r.title))
             ELSE ParseLines(Tail(lines), acc)

\* for line in slide_structure.split('\n'): ...
ParseOutline(outline) ==
    ParseLines(Split(outline, sNewline), <<>>)

\* the whole list, uncapped
Uncapped(titles) ==
    titles

\* slides_to_create[:MAX_SLIDES]
Capped(titles) ==
    SubSeq(titles, 1, IF Len(titles) < MAX_SLIDES THEN Len(titles) ELSE MAX_SLIDES)

\* '[Title Slide]' in slide_title
IsTitleSlideEntry(title) ==
    Contains(title, TitleSlideMarker)

\* slide_title.replace('[', '').replace(']', '')
DisplayTitle(title) ==
    Replace(Replace(title, <<"[">>, <<>>), <<"]">>, <<>>)

TitleSlideOf(title) ==
    [layout |-> 0, title |-> title, body |-> Subtitle]

ContentSlideOf(title, body) ==
    [layout |-> 1, title |-> DisplayTitle(title), body |-> body]

\* What the generation service does in the calls made by create_presentation
PresentResponses == {RaiseResp, TextResp(<<"a">>)}

PresentInitVars ==
    /\ slides_to_create = <<>>
    /\ idx = 0
    /\ prs = <<>>
    /\ ppt_path = None
    /\ genCalls = 0
    /\ allRaised = TRUE

\* prs = Presentation(); the title slide
TitleSlide ==
    /\ pc = "create"
    /\ prs' = <<TitleSlideOf(PptTitle)>>
    /\ pc' = "parse"
    /\ UNCHANGED <<slide_structure, slides_to_create, idx, ppt_path, genCalls, allRaised>>
    /\ UNCHANGED <<extractVars, contentVars, model>>

\* the parsing loop; an IndexError leaves for the except clause
ParseStructure ==
    /\ pc = "parse"
    /\ LET r == ParseOutline(slide_structure)
       IN  IF r.raised
           THEN pc' = "except" /\ UNCHANGED <<slides_to_create, idx>>
           ELSE pc' = "loop" /\ slides_to_create' = r.titles /\ idx' = 1
    /\ UNCHANGED <<slide_structure, prs, ppt_path, genCalls, allRaised>>
    /\ UNCHANGED <<extractVars, contentVars, model>>

\* if '[Title Slide]' in slide_title: continue
SkipTitleSlide ==
    /\ pc = "loop"
    /\ idx <= Len(Capped(slides_to_create))
    /\ IsTitleSlideEntry(slides_to_create[idx])
    /\ idx' = idx + 1
    /\ UNCHANGED <<pc, slide_structure, slides_to_create, prs, ppt_path, genCalls, allRaised>>
    /\ UNCHANGED <<extractVars, contentVars, model>>

\* one content slide: generate_slide_content, then add_slide and the texts
ContentSlide ==
    /\ pc = "loop"
    /\ idx <= Len(Capped(slides_to_create))
    /\ ~IsTitleSlideEntry(slides_to_create[idx])
    /\ \E resp \in PresentResponses :
          LET c == GenerateSlideContent(resp)
          IN  /\ genCalls' = genCalls + 1
              /\ allRaised' = (allRaised /\ resp.raised)
              /\ IF c.raised
                 THEN pc' = "except" /\ UNCHANGED <<prs, idx>>
                 ELSE /\ prs' = Append(prs, ContentSlideOf(slides_to_create[idx], c.value))
                      /\ idx' = idx + 1
                      /\ pc' = pc
    /\ UNCHANGED <<slide_structure, slides_to_create, ppt_path>>
    /\ UNCHANGED <<extractVars, contentVars, model>>

\* prs.save(tmp.name); return tmp.name
Save ==
    /\ pc = "loop"
    /\ idx > Len(Capped(slides_to_create))
    /\ ppt_path' = TmpFile
    /\ pc' = "pres_done"
    /\ UNCHANGED <<slide_structure, slides_to_create, idx, prs, genCalls, allRaised>>
    /\ UNCHANGED <<extractVars, contentVars, model>>

\* except Exception: st.error(...); return None
PresentExcept ==
    /\ pc = "except"
    /\ ppt_path' = None
    /\ pc' = "pres_done"
    /\ UNCHANGED <<slide_structure, slides_to_create, idx, prs, genCalls, allRaised>>
    /\ UNCHANGED <<extractVars, contentVars, model>>

----------------------------------------------------------------------------
(* Outline texts given to create_presentation *)

RECURSIVE Join(_, _)
Join(lines, sep) ==
    IF lines = <<>> THEN <<>>
    ELSE IF Len(lines) = 1 THEN lines[1]
    ELSE lines[1] \o sep \o Join(Tail(lines), sep)

\* 'Slide <n>: [<label>] - <rest>'
OutlineLine(n, label, rest) ==
    sSlide \o <<" ">> \o Digits(n) \o sColon \o <<"[">> \o label \o <<"]">> \o sDash \o rest

lblTitleSlide ==
    <<"T", "i", "t", "l", "e", " ", "S", "l", "i", "d", "e">>
lblIntroduction ==
    <<"I", "n", "t", "r", "o", "d", "u", "c", "t", "i", "o", "n">>
lblKeyFinding1 ==
    <<"K", "e", "y", " ", "F", "i", "n", "d", "i", "n", "g", " ", "1">>
lblKeyFinding2 ==
    <<"K", "e", "y", " ", "F", "i", "n", "d", "i", "n", "g", " ", "2">>
lblConclusion ==
    <<"C", "o", "n", "c", "l", "u", "s", "i", "o", "n">>

TemplateLabels ==
    <<lblTitleSlide, lblIntroduction, lblKeyFinding1, lblKeyFinding2, lblConclusion>>

\* the five lines of the REQUIRED OUTPUT FORMAT
TemplateLines ==
    [k \in 1..5 |->
        OutlineLine(k, TemplateLabels[k],
                    IF k = 1 THEN <<"T", "i", "t", "l", "e", ":", " ", "x">> ELSE <<"r">>)]

TemplateOutline == Join(TemplateLines, sNewline)

\* the lines of `lines` whose index is in S, in order
RECURSIVE Keep(_, _, _)
Keep(lines, S, k) ==
    IF k > Len(lines) THEN <<>>
    ELSE (IF k \in S THEN <<lines[k]>> ELSE <<>>) \o Keep(lines, S, k + 1)

\* the template with any of its lines deleted by the user
EditedOutlines ==
    {Join(Keep(TemplateLines, S, 1), sNewline) : S \in SUBSET (1..5)}

\* lines departing from the shape in one or more places
LinePrefixes ==
    {sSlide \o <<" ", "2">>, <<"s", "l", "i", "d", "e", " ", "2">>, <<" ">> \o sSlide \o <<" ", "2">>}
LineDelims ==
    {sColon, <<":">>, <<":", " ", "x", ":", " ">>}
LineLabels ==
    {<<"[", "A", "]">>, <<"A">>, <<"[", "[", "A", "]">>, <<"[", "]">>,
     TitleSlideMarker, <<"x">> \o TitleSlideMarker \o <<"y">>, <<"[", "A", " ", "-", "]">>}
LineSeparators ==
    {sDash, <<"-">>, sDash \o <<"b">> \o sDash}

LineVariants ==
    {p \o d \o l \o s \o <<"r">> :
        p \in LinePrefixes, d \in LineDelims, l \in LineLabels, s \in LineSeparators}

WellFormedLine == OutlineLine(3, <<"B">>, <<"r">>)

VariantOutlines ==
    LineVariants
    \cup {v \o sNewline \o WellFormedLine : v \in LineVariants}
    \cup {WellFormedLine \o sNewline \o v : v \in LineVariants}

\* n well-formed lines 'Slide k: [Tk] - r'
LongOutline(n) ==
    Join([k \in 1..n |-> OutlineLine(k, <<"T">> \o Digits(k), <<"r">>)], sNewline)

LongOutlines ==
    {LongOutline(n) : n \in (MAX_SLIDES - 1)..MaxLines}

Outlines == EditedOutlines \cup VariantOutlines \cup LongOutlines

----------------------------------------------------------------------------
(* main *)

\* configure_gemini: genai.configure(api_key=GEMINI_API_KEY) names a global
\* that the module never binds, so the call raises NameError; the handler
\* reports it and st.stop() ends the script run.
MainConfigure ==
    /\ pc = "main"
    /\ model' = None
    /\ pc' = "stopped"
    /\ UNCHANGED <<extractVars, contentVars, presentVars>>

----------------------------------------------------------------------------
(* Specifications *)

\* extract_text_from_pdf called on a file
InitExtract ==
    /\ pc = "seek"
    /\ pdf \in PDFs
    /\ ExtractInitVars
    /\ ContentInitVars
    /\ slide_structure = <<>>
    /\ PresentInitVars
    /\ model = None

NextExtract ==
    \/ Seek
    \/ PlumberPage
    \/ PlumberRaise
    \/ PlumberEmpty
    \/ FallbackCheck
    \/ PyPDFPage
    \/ PyPDFRaise
    \/ PyPDFEmpty
    \/ ExtractReturn

SpecExtract == InitExtract /\ [][NextExtract]_vars

NoPdf == [A |-> <<>>, B |-> <<>>]

\* generate_slide_content called once
InitContent ==
    /\ pc = "gen_call"
    /\ pdf = NoPdf
    /\ ExtractInitVars
    /\ ContentInitVars
    /\ slide_structure = <<>>
    /\ PresentInitVars
    /\ model = None

NextContent == GenerateContentCall

SpecContent == InitContent /\ [][NextContent]_vars

\* create_presentation called on an outline text
InitPresent ==
    /\ pc = "create"
    /\ pdf = NoPdf
    /\ ExtractInitVars
    /\ ContentInitVars
    /\ slide_structure \in Outlines
    /\ PresentInitVars
    /\ model = None

NextPresent ==
    \/ TitleSlide
    \/ ParseStructure
    \/ SkipTitleSlide
    \/ ContentSlide
    \/ Save
    \/ PresentExcept

SpecPresent == InitPresent /\ [][NextPresent]_vars

\* one script run of main
InitMain ==
    /\ pc = "main"
    /\ pdf = NoPdf
    /\ ExtractInitVars
    /\ ContentInitVars
    /\ slide_structure = <<>>
    /\ PresentInitVars
    /\ model = None

NextMain == MainConfigure

SpecMain == InitMain /\ [][NextMain]_vars

----------------------------------------------------------------------------
(* Properties of extract_text_from_pdf, under SpecExtract *)

\* len of the part of `text` that provider prov contributed, markers included
ProviderLen(prov) ==
    TextLen(SelectSeq(text, LAMBDA g : g.prov = prov))

ExtractFailed ==
    pc = "extracted" /\ ret_text = <<>> /\ ret_error # None

\* C1: whenever both providers were run and each contributed a text shorter
\* than MIN_CONTENT_LENGTH, extract_text_from_pdf returns (None, error).
C1_BothShortFails ==
    (/\ pc = "extracted"
     /\ calledB
     /\ ProviderLen("A") < MIN_CONTENT_LENGTH
     /\ ProviderLen("B") < MIN_CONTENT_LENGTH)
    => ExtractFailed

\* C8: when the text accumulated by pdfplumber has at least MIN_CONTENT_LENGTH
\* characters, PyPDF2 is never invoked and the file is rewound once only;
\* PyPDF2 is invoked only after pdfplumber ended (normally or by raising)
\* with fewer than MIN_CONTENT_LENGTH characters.
C8_LazyFallback ==
    /\ lenA >= MIN_CONTENT_LENGTH => (~calledB /\ seeks = 1)
    /\ calledB => (0 <= lenA /\ lenA < MIN_CONTENT_LENGTH /\ seeks = 2)

\* pdfplumber returned exactly MIN_CONTENT_LENGTH characters and the call
\* ended without PyPDF2
C8_Witness ==
    /\ pc = "extracted"
    /\ lenA = MIN_CONTENT_LENGTH
    /\ ~calledB
    /\ seeks = 1

\* C10: extract_text_from_pdf returns (None, error) only after PyPDF2 has
\* been invoked.
C10_FailureOnlyAfterFallback ==
    ExtractFailed => calledB

----------------------------------------------------------------------------
(* Properties of generate_slide_content, under SpecContent *)

NonBlank(s) ==
    \E k \in 1..Len(s) : s[k] \notin Whitespace

\* C4: whatever the generation service does, generate_slide_content returns
\* normally, with a text that is not blank and holds a bullet marker.
C4_ContentUsable ==
    pc = "gen_done" =>
        /\ ~content.raised
        /\ NonBlank(content.value)
        /\ HasMarker(content.value)

\* a two-line answer without markers came back re-wrapped
C4_Witness ==
    /\ pc = "gen_done"
    /\ response = TextResp(<<"a", "\n", "a">>)
    /\ content = TextResp(<<"-", " ", "a", "\n", "-", " ", "a">>)

----------------------------------------------------------------------------
(* Properties of create_presentation, under SpecPresent *)

Returned == pc = "pres_done"

ContentSlides == {k \in 1..Len(prs) : prs[k].layout = 1}

\* the entries of the capped plan that the loop does not skip
PlannedEntries ==
    {k \in 1..Len(Capped(slides_to_create)) : ~IsTitleSlideEntry(slides_to_create[k])}

\* C2: the five template lines give exactly 5 slides, none of them a content
\* slide for the Title Slide entry, with 4 content-generation calls.
C2_TemplateGivesFiveSlides ==
    (Returned /\ slide_structure = TemplateOutline) =>
        /\ ppt_path # None
        /\ Len(prs) = 5
        /\ genCalls = 4
        /\ \A k \in ContentSlides : prs[k].title # lblTitleSlide

IsDigits(s) ==
    s # <<>> /\ \A k \in 1..Len(s) : s[k] \in {"0", "1", "2", "3", "4", "5", "6", "7", "8", "9"}

\* the line has the shape 'Slide <n>: [<Label>] - <rest>'
MatchesShape(line) ==
    LET j == Find(line, sDash, 1)
        head == SubSeq(line, 1, j - 1)
        c == Find(head, sColon, 1)
        lab == SubSeq(head, c + 2, Len(head))
    IN  /\ j # 0
        /\ StartsWith(head, sSlide \o <<" ">>)
        /\ c > 7
        /\ IsDigits(SubSeq(head, 7, c - 1))
        /\ Len(lab) >= 3
        /\ lab[1] = "[" /\ lab[Len(lab)] = "]"
        /\ \A k \in 2..(Len(lab) - 1) : lab[k] \notin Brackets

ShapedLines(outline) ==
    LET lines == Split(outline, sNewline)
    IN  {k \in 1..Len(lines) : MatchesShape(lines[k])}

\* C3: lines departing from the shape raise no error and give no slide: an
\* artifact is returned, with content slides for well-formed lines only.
C3_MalformedLinesSkipped ==
    Returned =>
        /\ ppt_path # None
        /\ Cardinality(ContentSlides) <= Cardinality(ShapedLines(slide_structure))

\* C5: when the outline parses and every content-generation call raises,
\* an artifact is returned with one content slide per planned entry, each
\* carrying the placeholder of the exception handler.
C5_AllRaisePlaceholders ==
    (Returned /\ ~ParseOutline(slide_structure).raised /\ allRaised) =>
        /\ ppt_path # None
        /\ Cardinality(ContentSlides) = Cardinality(PlannedEntries)
        /\ \A k \in ContentSlides : prs[k].body = ExceptionPlaceholder

\* the service raised in three calls and the presentation was still saved
C5_Witness ==
    /\ Returned
    /\ allRaised
    /\ genCalls = 3
    /\ ppt_path = TmpFile
    /\ Cardinality(ContentSlides) = 3
    /\ prs[4].body = ExceptionPlaceholder

\* C7: never more than MAX_SLIDES content slides, MAX_SLIDES + 1 slides in
\* all, or MAX_SLIDES content-generation calls.
C7_AtMostMaxSlides ==
    /\ Cardinality(ContentSlides) <= MAX_SLIDES
    /\ Len(prs) <= MAX_SLIDES + 1
    /\ genCalls <= MAX_SLIDES

\* an outline of more than MAX_SLIDES slide lines was assembled
C7_Witness ==
    /\ Returned
    /\ Len(slides_to_create) > MAX_SLIDES
    /\ ppt_path = TmpFile
    /\ Cardinality(ContentSlides) = MAX_SLIDES

\* the titles written back as lines 'Slide <n>: [t] - r'
Serialize(titles) ==
    Join([k \in 1..Len(titles) |-> OutlineLine(k, titles[k], <<"r">>)], sNewline)

\* C9: parsing the re-serialized titles of a parsed outline gives the same
\* titles in the same order.
C9_ParseIdempotent ==
    pc \in {"loop", "pres_done"} /\ ~ParseOutline(slide_structure).raised =>
        ParseOutline(Serialize(slides_to_create)) =
            [raised |-> FALSE, titles |-> slides_to_create]

\* two titles were parsed from a text that is not their serialization,
\* one of them from a label with a doubled bracket
C9_Witness ==
    /\ pc = "loop"
    /\ Len(slides_to_create) = 2
    /\ Contains(slide_structure, <<"[", "[", "A", "]">>)
    /\ slides_to_create[1] = <<"A">>
    /\ slide_structure # Serialize(slides_to_create)

====
